---- MODULE Spec2Model ----
(***************************************************************************)
(* Model of the quadtree of src/src/quadtree.rs: the tree of               *)
(* QuadtreeNode values owned by Quadtree, its mutating operations (_add,   *)
(* _remove, and the per-entity body of SysUpdateQuadtree::run), and the    *)
(* QuadtreeIterator opened by iter_with_max_dist.                          *)
(*                                                                         *)
(* Coordinates are integers: 1.0 is RootSize units.  RootSize is 5 * 2^5,  *)
(* so 0.1, 0.15, 0.3, 0.5, 0.6 and 0.9 are whole numbers of units and      *)
(* every halving down to MaxDepth + 1 levels is exact, as it is in f32 for *)
(* the same values.                                                        *)
(*                                                                         *)
(* A node is a record, as in the source: bounds, parent, children and      *)
(* members.  A reference to a node is the path of child indices (0-based,  *)
(* as in the source) leading to it from the top node.  The raw parent      *)
(* pointer of a node is "null" (the top node), "live" (it points to the    *)
(* node whose children vector holds this node) or "stale" (it points into  *)
(* a children buffer that a later push reallocated).                       *)
(***************************************************************************)
EXTENDS Integers, Sequences, FiniteSets, TLC

\* tree: Quadtree.top.  refs: the QuadtreeRef storage, per entity.
\* cur: the QuadtreeIterator in existence, if any.
\* hist: history variable: the tree before an insert whose remove follows.
VARIABLES tree, refs, cur, hist

vars == <<tree, refs, cur, hist>>

----------------------------------------------------------------------------
(* Bounds of the model *)

\* Greatest number of members stored in the whole tree.
MaxMembers == 5

\* Deepest level a node may have (the top node is at level 0).
MaxDepth == 2

\* Greatest length of one node's children vector.
MaxChildren == 8

----------------------------------------------------------------------------
(* Program constants and inputs *)

\* members.len() < 4 in QuadtreeNode::add
Capacity == 4

\* The number of children a split pushes: for idx in 0..4
Fanout == 4

\* size: 1.0 of the top node, in units
RootSize == 5 * 32

Bnd(x, y, s) == [x |-> x, y |-> y, size |-> s]

Pos(x, y) == [x |-> x, y |-> y]

Entities == {"e1", "e2", "e3", "e4", "e5"}

\* The entities the operations of Spec and SpecRound are called with.
Movers == {"e1", "e2"}

\* The extents they are called with, per entity: the points (0.1,0.1) and
\* (0.9,0.9), an extent across both midlines of the top node, and the
\* Bounds of the entity main creates, pos (-0.3,-0.3) size 0.6.
ExtentsOf(e) ==
    CASE e = "e1" -> {Bnd(16, 16, 0), Bnd(60, 60, 40)}
      [] e = "e2" -> {Bnd(144, 144, 0), Bnd(-48, -48, 96)}

\* The entities the operations of SpecPoints are called with, and the
\* extent of each: (0.1,0.1), (0.9,0.9) and (0.5,0.5), of size 0.
PointEntities == {"e1", "e2", "e3"}

PointOf(e) ==
    CASE e = "e1" -> Bnd(16, 16, 0)
      [] e = "e2" -> Bnd(144, 144, 0)
      [] e = "e3" -> Bnd(80, 80, 0)

\* The extents the operations of SpecInserts are called with, for every
\* entity: a point of the bottom-left quadrant and an extent across both
\* midlines of the top node.
CrowdExtents == {Bnd(16, 16, 0), Bnd(60, 60, 40)}

\* The queries opened: target and max_dist.
Queries == { [target |-> Pos(80, 80), max_dist |-> 24],
             [target |-> Pos(16, 16), max_dist |-> 16] }

\* None of an Option of a node reference (a path holds indices >= 0).
NoRef == <<-1>>

----------------------------------------------------------------------------
(* Bounds (the struct) *)

\* Bounds::split
Split(b, idx) ==
    LET size == b.size \div 2
    IN  [x    |-> IF idx % 2 = 1 THEN b.x + size ELSE b.x,
         y    |-> IF idx >= 2 THEN b.y + size ELSE b.y,
         size |-> size]

\* f32::signum: 1.0 for a positive number and for +0.0, -1.0 for a negative
\* one; a difference of two equal finite numbers is +0.0.
Signum(v) == IF v >= 0 THEN 1 ELSE -1

\* Bounds::min_sq_dist
MinSqDist(b, target) ==
    LET half_size == b.size \div 2
        center_x  == b.x + half_size
        corner_x  == center_x + half_size * Signum(target.x - center_x)
        center_y  == b.y + half_size
        corner_y  == center_y + half_size * Signum(target.y - center_y)
        delta_x   == corner_x - target.x
        delta_y   == corner_y - target.y
    IN  delta_x * delta_x + delta_y * delta_y

----------------------------------------------------------------------------
(* QuadtreeNode *)

Mem(entity, b) == [entity |-> entity, bounds |-> b]

NewNode(b, parent) ==
    [bounds |-> b, parent |-> parent, children |-> <<>>, members |-> <<>>]

\* QuadtreeNode::find: the 1-based index of the first member of that entity,
\* 0 for None.
Find(node, entity) ==
    LET hits == {i \in DOMAIN node.members : node.members[i].entity = entity}
    IN  IF hits = {} THEN 0 ELSE CHOOSE i \in hits : \A j \in hits : i <= j

\* The child index find_node / find_node_mut descends into, or -1 where they
\* return self.
ChildIndex(node, b) ==
    LET half_size == node.bounds.size \div 2
        mid_x == node.bounds.x + half_size
        mid_y == node.bounds.y + half_size
        ix == IF mid_x < b.x THEN 1
              ELSE IF mid_x < b.x + b.size THEN -1 ELSE 0
        iy == IF mid_y < b.y THEN 2
              ELSE IF mid_y < b.y + b.size THEN -1 ELSE 0
    IN  IF ix = -1 \/ iy = -1 THEN -1 ELSE ix + iy

RECURSIVE FindNode(_, _)
\* QuadtreeNode::find_node and find_node_mut: the path, from node, of the
\* node they return.
FindNode(node, b) ==
    IF node.children # <<>>
    THEN LET idx == ChildIndex(node, b)
         IN  IF idx = -1 THEN <<>>
             ELSE <<idx>> \o FindNode(node.children[idx + 1], b)
    ELSE <<>>

RECURSIVE NodeAt(_, _)
\* The node a path leads to.
NodeAt(node, path) ==
    IF path = <<>> THEN node
    ELSE NodeAt(node.children[Head(path) + 1], Tail(path))

RECURSIVE Replace(_, _, _)
\* The tree with the node at path replaced (a write through a &mut).
Replace(node, path, new) ==
    IF path = <<>> THEN new
    ELSE [node EXCEPT !.children[Head(path) + 1] =
                          Replace(@, Tail(path), new)]

\* members.push on the node find_node_mut returns from node.
PushFound(node, m) ==
    LET path == FindNode(node, m.bounds)
        dest == NodeAt(node, path)
    IN  Replace(node, path, [dest EXCEPT !.members = Append(@, m)])

\* A re-homing loop that stops after the first pair.
PushFirst(node, ms) ==
    IF ms = <<>> THEN node
    ELSE PushFound(node, Head(ms))

RECURSIVE PushAll(_, _)
PushAll(node, ms) ==
    IF ms = <<>> THEN node
    ELSE PushAll(PushFound(node, Head(ms)), Tail(ms))

\* Vec::push beyond the capacity reallocates the buffer: a vector grown by
\* pushes from Vec::new() has capacity 4 at length 4 and 8 at length 8 (and
\* 16 at length 12).
Reallocates(len) == len = 4 \/ len = 8

\* A node whose address changed: the parent pointers of its children are
\* left pointing at the old address.
Moved(node) ==
    [node EXCEPT !.children =
        [j \in DOMAIN @ |-> [@[j] EXCEPT !.parent = "stale"]]]

\* QuadtreeNode::add
NodeAdd(node, entity, b) ==
    IF Len(node.members) < Capacity
    THEN [node EXCEPT !.members = Append(@, Mem(entity, b))]
    ELSE LET kept  == IF Reallocates(Len(node.children))
                      THEN [i \in DOMAIN node.children |->
                                Moved(node.children[i])]
                      ELSE node.children
             fresh == [i \in 1..Fanout |->
                          NewNode(Split(node.bounds, i - 1), "live")]
             split == [node EXCEPT !.members = <<>>,
                                   !.children = kept \o fresh]
         IN  PushAll(split, node.members \o <<Mem(entity, b)>>)

\* Vec::swap_remove
SwapRemove(s, i) ==
    LET n == Len(s)
    IN  [k \in 1..(n - 1) |-> IF k = i THEN s[n] ELSE s[k]]

AllEmpty(node) ==
    \A i \in DOMAIN node.children :
        /\ node.children[i].children = <<>>
        /\ node.children[i].members = <<>>

Parent(path) == SubSeq(path, 1, Len(path) - 1)

RECURSIVE Collapse(_, _)
\* The loop of QuadtreeNode::remove over the parent pointers, from the node
\* at path upwards.
Collapse(top, path) ==
    LET node == NodeAt(top, path)
        cleared == Replace(top, path, [node EXCEPT !.children = <<>>])
    IN  IF AllEmpty(node)
        THEN IF path = <<>> THEN cleared ELSE Collapse(cleared, Parent(path))
        ELSE top

\* QuadtreeNode::remove, on the node at path.
NodeRemove(top, path, entity) ==
    LET node == NodeAt(top, path)
        idx  == Find(node, entity)
        left == SwapRemove(node.members, idx)
        gone == Replace(top, path, [node EXCEPT !.members = left])
    IN  IF idx = 0 THEN top
        ELSE IF left = <<>> /\ path # <<>>
             THEN Collapse(gone, Parent(path))
             ELSE gone

----------------------------------------------------------------------------
(* Quadtree *)

\* Quadtree::new
NewTree == NewNode(Bnd(0, 0, RootSize), "null")

\* Quadtree::_add
QAdd(top, entity, b) ==
    LET path == FindNode(top, b)
        node == NodeAt(top, path)
    IN  IF Find(node, entity) = 0
        THEN Replace(top, path, NodeAdd(node, entity, b))
        ELSE top

\* _remove with swap_remove(0) in place of swap_remove(idx).
QRemoveFirst(top, entity, b) ==
    LET path == FindNode(top, b)
        node == NodeAt(top, path)
    IN  IF Find(node, entity) # 0
        THEN Replace(top, path, [node EXCEPT !.members = SwapRemove(@, 1)])
        ELSE top

\* _remove that takes the last member away when the entity is not found.
QRemoveOrLast(top, entity, b) ==
    LET path == FindNode(top, b)
        node == NodeAt(top, path)
        idx  == Find(node, entity)
    IN  IF node.members # <<>>
        THEN Replace(top, path,
                     [node EXCEPT !.members =
                         SwapRemove(@, IF idx # 0 THEN idx ELSE Len(@))])
        ELSE top

\* Quadtree::_remove
QRemove(top, entity, b) ==
    LET path == FindNode(top, b)
        node == NodeAt(top, path)
        idx  == Find(node, entity)
    IN  IF idx # 0
        THEN Replace(top, path,
                     [node EXCEPT !.members = SwapRemove(@, idx)])
        ELSE top

\* The body of the loop of run with the untracked entity added to the top
\* node instead of the node find_node_mut returns.
RunOneAtTop(top, ref, entity, b) ==
    IF ref # NoRef
    THEN LET node == NodeAt(top, ref)
             removed == NodeRemove(top, ref, entity)
             path    == FindNode(removed, b)
         IN  Replace(removed, path,
                     NodeAdd(NodeAt(removed, path), entity, b))
    ELSE NodeAdd(top, entity, b)

\* The body of the loop of SysUpdateQuadtree::run for one entity: ref is
\* refs.get_mut(entity) (a path, or NoRef for None).
RunOne(top, ref, entity, b) ==
    IF ref # NoRef
    THEN LET node == NodeAt(top, ref)
         IN  IF /\ node.bounds.x < b.x
                /\ b.x + b.size < node.bounds.x + node.bounds.size
                /\ node.bounds.y < b.y
                /\ b.y + b.size < node.bounds.y + node.bounds.size
             THEN LET better == FindNode(node, b)
                  IN  IF better # <<>>
                      THEN LET child == NodeAt(node, better)
                               added == Replace(top, ref \o better,
                                                NodeAdd(child, entity, b))
                           IN  NodeRemove(added, ref, entity)
                      ELSE top
             ELSE LET removed == NodeRemove(top, ref, entity)
                      path    == FindNode(removed, b)
                  IN  Replace(removed, path,
                              NodeAdd(NodeAt(removed, path), entity, b))
    ELSE LET path == FindNode(top, b)
         IN  Replace(top, path, NodeAdd(NodeAt(top, path), entity, b))

----------------------------------------------------------------------------
(* Measures of a tree *)

RECURSIVE Paths(_)
\* The paths of all the nodes of a tree.
Paths(node) ==
    {<<>>} \cup UNION { { <<i - 1>> \o p : p \in Paths(node.children[i]) } :
                        i \in DOMAIN node.children }

RECURSIVE TotalMembers(_), TotalFrom(_, _)
\* The number of members of all the nodes of a tree.
TotalMembers(node) == Len(node.members) + TotalFrom(node.children, 1)

TotalFrom(nodes, i) ==
    IF i > Len(nodes) THEN 0
    ELSE TotalMembers(nodes[i]) + TotalFrom(nodes, i + 1)

RECURSIVE Shallow(_, _)
\* Whether the nodes of a tree, the top one at that level, are within
\* MaxDepth and MaxChildren.
Shallow(node, level) ==
    /\ level <= MaxDepth
    /\ Len(node.children) <= MaxChildren
    /\ \A i \in DOMAIN node.children : Shallow(node.children[i], level + 1)

Bounded(top) == TotalMembers(top) <= MaxMembers /\ Shallow(top, 0)

----------------------------------------------------------------------------
(* QuadtreeIterator *)

\* The cursor when no QuadtreeIterator exists.
NoCursor ==
    [status |-> "closed", target |-> Pos(0, 0), max_sqdist |-> 0,
     node |-> <<>>, prev_node |-> NoRef, idx |-> 0,
     yielded |-> {}, count |-> 0, nones |-> 0]

\* Quadtree::iter_with_max_dist.  Beside the fields of QuadtreeIterator the
\* record keeps what the calls of next() returned: the pairs yielded, their
\* number, and the number of None results (counted up to 2).
IterWithMaxDist(target, max_dist) ==
    [status |-> "open", target |-> target,
     max_sqdist |-> max_dist * max_dist,
     node |-> <<>>, prev_node |-> NoRef, idx |-> 0,
     yielded |-> {}, count |-> 0, nones |-> 0]

Least(S) == CHOOSE i \in S : \A j \in S : i <= j

\* f_idx of next(): position(|n| n == prev_node).unwrap() + 1, or 0 when
\* prev_node is None; -1 stands for the panic of unwrap() on None.
ResumeIndex(node, c) ==
    IF c.prev_node = NoRef THEN 0
    ELSE LET hits == {i \in 0..(Len(node.children) - 1) :
                          c.node \o <<i>> = c.prev_node}
         IN  IF hits = {} THEN -1 ELSE Least(hits) + 1

\* self.node = &*self.node.parent; self.prev_node = Some(self.node)
MoveUp(c) ==
    [c EXCEPT !.node = Parent(c.node), !.prev_node = Parent(c.node)]

\* A restartable cursor: the index is reset where None is returned.
ReturnNoneRewound(c) == [c |-> [c EXCEPT !.idx = 0], outcome |-> "none"]

\* return None, with the parent pointer null
ReturnNone(c) == [c |-> c, outcome |-> "none"]

RECURSIVE Loop(_, _), Ascend(_, _)
\* The loop of next(): the cursor it leaves and how it ends: "item" (break),
\* "none" (return None), "panic" (unwrap on None) or "dangling" (the parent
\* pointer dereferenced is stale).
Loop(top, c) ==
    LET node == NodeAt(top, c.node)
    IN  IF node.children # <<>>
        THEN LET f_idx == ResumeIndex(node, c)
                 near  == {i \in f_idx..(Fanout - 1) :
                              MinSqDist(node.children[i + 1].bounds, c.target)
                                  < c.max_sqdist}
             IN  IF f_idx = -1 THEN [c |-> c, outcome |-> "panic"]
                 ELSE IF near # {}
                      THEN Loop(top, [c EXCEPT !.node = c.node \o <<Least(near)>>,
                                               !.prev_node = NoRef])
                      ELSE Ascend(top, c)
        ELSE IF node.members # <<>>
             THEN [c |-> [c EXCEPT !.idx = 0], outcome |-> "item"]
             ELSE Ascend(top, c)

\* if !found: return None at the top node, else move up and loop.
Ascend(top, c) ==
    LET node == NodeAt(top, c.node)
    IN  IF node.parent = "null" THEN ReturnNone(c)
        ELSE IF node.parent = "stale" THEN [c |-> c, outcome |-> "dangling"]
        ELSE Loop(top, MoveUp(c))

\* QuadtreeIterator::next up to the item it is about to yield.
Advance(top, c) ==
    IF c.idx < Len(NodeAt(top, c.node).members)
    THEN [c |-> c, outcome |-> "item"]
    ELSE Loop(top, c)

\* How a call may end: reading through a stale parent pointer is undefined
\* behaviour; the freed buffer either still holds the old copy of the node
\* (and unwrap() panics as for a live pointer) or the access faults.
Endings(outcome) ==
    CASE outcome = "item"     -> {"open"}
      [] outcome = "none"     -> {"exhausted"}
      [] outcome = "panic"    -> {"panicked"}
      [] outcome = "dangling" -> {"panicked", "faulted"}

\* The cursor after a call of next() that ends in status s.
AfterNext(top, c, r, s) ==
    IF r.outcome = "item"
    THEN LET item == NodeAt(top, r.c.node).members[r.c.idx + 1]
         IN  [r.c EXCEPT !.status = s, !.idx = @ + 1,
                         !.yielded = @ \cup {item}, !.count = @ + 1]
    ELSE [r.c EXCEPT !.status = s,
                     !.nones = IF r.outcome = "none" /\ @ < 2 THEN @ + 1 ELSE @]

----------------------------------------------------------------------------
(* The system *)

NoHist ==
    [phase |-> "idle", pre |-> NewTree, entity |-> "", bounds |-> Bnd(0, 0, 0)]

Init ==
    /\ tree = NewTree
    /\ refs = [e \in Entities |-> NoRef]
    /\ cur = NoCursor
    /\ hist = NoHist

\* insert(entity, extent)
Insert(e, b) ==
    /\ cur.status = "closed" /\ hist.phase = "idle"
    /\ LET t == QAdd(tree, e, b)
       IN  Bounded(t) /\ tree' = t
    /\ UNCHANGED <<refs, cur, hist>>

\* remove(entity, extent)
Remove(e, b) ==
    /\ cur.status = "closed" /\ hist.phase = "idle"
    /\ tree' = QRemove(tree, e, b)
    /\ UNCHANGED <<refs, cur, hist>>

\* relocate(entity, new_extent): run never writes refs.
Relocate(e, b) ==
    /\ cur.status = "closed" /\ hist.phase = "idle"
    /\ LET t == RunOne(tree, refs[e], e, b)
       IN  Bounded(t) /\ tree' = t
    /\ UNCHANGED <<refs, cur, hist>>

\* query_range(target, max_distance): the iterator borrows the tree, so no
\* mutation runs until it is dropped.
Open(q) ==
    /\ cur.status = "closed" /\ hist.phase = "idle"
    /\ cur' = IterWithMaxDist(q.target, q.max_dist)
    /\ UNCHANGED <<tree, refs, hist>>

\* One call of next().
NextCall ==
    /\ cur.status \in {"open", "exhausted"}
    /\ cur.count <= TotalMembers(tree)
    /\ LET r == Advance(tree, cur)
       IN  \E s \in Endings(r.outcome) : cur' = AfterNext(tree, cur, r, s)
    /\ UNCHANGED <<tree, refs, hist>>

\* The iterator is dropped.
Close ==
    /\ cur.status # "closed"
    /\ cur' = NoCursor
    /\ UNCHANGED <<tree, refs, hist>>

Next ==
    \/ \E e \in Movers : \E b \in ExtentsOf(e) : Insert(e, b)
    \/ \E e \in Movers : \E b \in ExtentsOf(e) : Remove(e, b)
    \/ \E e \in Movers : \E b \in ExtentsOf(e) : Relocate(e, b)
    \/ \E q \in Queries : Open(q)
    \/ NextCall
    \/ Close

Spec == Init /\ [][Next]_vars

----------------------------------------------------------------------------
(* insert immediately followed by remove *)

RECURSIVE Holds(_, _)
\* Whether some node of the tree has a member of that entity.
Holds(node, entity) ==
    \/ Find(node, entity) # 0
    \/ \E i \in DOMAIN node.children : Holds(node.children[i], entity)

\* insert(e, b) of an entity the tree does not hold; the tree before it is
\* kept in hist.
RoundInsert(e, b) ==
    /\ cur.status = "closed" /\ hist.phase = "idle"
    /\ ~Holds(tree, e)
    /\ LET t == QAdd(tree, e, b)
       IN  Bounded(t) /\ tree' = t
    /\ hist' = [phase |-> "inserted", pre |-> tree, entity |-> e, bounds |-> b]
    /\ UNCHANGED <<refs, cur>>

\* remove(e, b) of the pair just inserted.
RoundRemove ==
    /\ hist.phase = "inserted"
    /\ tree' = QRemove(tree, hist.entity, hist.bounds)
    /\ hist' = [hist EXCEPT !.phase = "removed"]
    /\ UNCHANGED <<refs, cur>>

RoundEnd ==
    /\ hist.phase = "removed"
    /\ hist' = NoHist
    /\ UNCHANGED <<tree, refs, cur>>

NextRound ==
    \/ \E e \in Movers : \E b \in ExtentsOf(e) : Insert(e, b)
    \/ \E e \in Movers : \E b \in ExtentsOf(e) : Remove(e, b)
    \/ \E e \in Movers : \E b \in ExtentsOf(e) : Relocate(e, b)
    \/ \E e \in Movers : \E b \in ExtentsOf(e) : RoundInsert(e, b)
    \/ RoundRemove
    \/ RoundEnd

SpecRound == Init /\ [][NextRound]_vars

----------------------------------------------------------------------------
(* insert and remove alone, of five entities *)

NextInserts ==
    \/ \E e \in Entities : \E b \in CrowdExtents : Insert(e, b)
    \/ \E e \in Entities : \E b \in CrowdExtents : Remove(e, b)

SpecInserts == Init /\ [][NextInserts]_vars

----------------------------------------------------------------------------
(* Three entities of size 0, one at the centre of the root square *)

NextPoints ==
    \/ \E e \in PointEntities : Insert(e, PointOf(e))
    \/ \E e \in PointEntities : Remove(e, PointOf(e))
    \/ \E e \in PointEntities : Relocate(e, PointOf(e))
    \/ \E q \in Queries : Open(q)
    \/ NextCall
    \/ Close

SpecPoints == Init /\ [][NextPoints]_vars

----------------------------------------------------------------------------
(* Operations with the tree before them kept *)

\* hist after an operation of that kind on (e, b).
Did(kind, e, b) ==
    [phase |-> kind, pre |-> tree, entity |-> e, bounds |-> b]

\* insert(entity, extent)
DoInsert(e, b) ==
    /\ cur.status = "closed" /\ hist.phase = "idle"
    /\ LET t == QAdd(tree, e, b)
       IN  Bounded(t) /\ tree' = t
    /\ hist' = Did("insert", e, b)
    /\ UNCHANGED <<refs, cur>>

\* The same insert called a second time; hist keeps the tree between the
\* two calls.
DoInsertAgain ==
    /\ hist.phase = "insert"
    /\ tree' = QAdd(tree, hist.entity, hist.bounds)
    /\ hist' = [hist EXCEPT !.phase = "insert again", !.pre = tree]
    /\ UNCHANGED <<refs, cur>>

\* remove(entity, extent)
DoRemove(e, b) ==
    /\ cur.status = "closed" /\ hist.phase = "idle"
    /\ tree' = QRemove(tree, e, b)
    /\ hist' = Did("remove", e, b)
    /\ UNCHANGED <<refs, cur>>

\* relocate(entity, new_extent)
DoRelocate(e, b) ==
    /\ cur.status = "closed" /\ hist.phase = "idle"
    /\ LET t == RunOne(tree, refs[e], e, b)
       IN  Bounded(t) /\ tree' = t
    /\ hist' = Did("relocate", e, b)
    /\ UNCHANGED <<refs, cur>>

\* The operation has returned.
Done ==
    /\ hist.phase \in {"insert", "insert again", "remove", "relocate"}
    /\ hist' = NoHist
    /\ UNCHANGED <<tree, refs, cur>>

NextOps ==
    \/ \E e \in Movers : \E b \in ExtentsOf(e) : DoInsert(e, b)
    \/ \E e \in Movers : \E b \in ExtentsOf(e) : DoRemove(e, b)
    \/ \E e \in Movers : \E b \in ExtentsOf(e) : DoRelocate(e, b)
    \/ Done

SpecOps == Init /\ [][NextOps]_vars

\* The extents the operations of SpecTwice are called with, per entity:
\* both extents of CrowdExtents for one entity, the point for the others.
TwiceExtentsOf(e) ==
    IF e = "e1" THEN CrowdExtents ELSE {Bnd(16, 16, 0)}

NextTwice ==
    \/ \E e \in Entities : \E b \in TwiceExtentsOf(e) : DoInsert(e, b)
    \/ \E e \in Entities : \E b \in TwiceExtentsOf(e) : DoRemove(e, b)
    \/ DoInsertAgain
    \/ Done

SpecTwice == Init /\ [][NextTwice]_vars

\* The extents the operations of SpecScenario are called with, per entity:
\* the points (0,0), (0.1,0), (0,0.1), (0.6,0.6), (0.9,0.9) of size 0, and
\* for the last two entities also an extent of size 0.25 at (0.5,0.5) and
\* the point (0.5,0.5).
ScenarioExtentsOf(e) ==
    CASE e = "e1" -> {Bnd(0, 0, 0)}
      [] e = "e2" -> {Bnd(16, 0, 0)}
      [] e = "e3" -> {Bnd(0, 16, 0)}
      [] e = "e4" -> {Bnd(96, 96, 0), Bnd(80, 80, 40)}
      [] e = "e5" -> {Bnd(144, 144, 0), Bnd(80, 80, 0)}

NextScenario ==
    \/ \E e \in Entities : \E b \in ScenarioExtentsOf(e) : DoInsert(e, b)
    \/ \E e \in Entities : \E b \in ScenarioExtentsOf(e) : DoRemove(e, b)
    \/ Done

SpecScenario == Init /\ [][NextScenario]_vars

NextBatches ==
    \/ \E e \in Movers : \E b \in ExtentsOf(e) : DoRelocate(e, b)
    \/ Done

\* Relocation batches alone, on a tree that starts empty.
SpecBatches == Init /\ [][NextBatches]_vars

----------------------------------------------------------------------------
(* Notions the properties use *)

\* The members of all the nodes of a tree.
AllMembers(top) ==
    UNION { { NodeAt(top, p).members[i] : i \in DOMAIN NodeAt(top, p).members } :
            p \in Paths(top) }

Max3(a, b, c) ==
    IF a >= b /\ a >= c THEN a ELSE IF b >= c THEN b ELSE c

\* The squared distance from a point to the nearest point of an extent.
DistSq(target, b) ==
    LET dx == Max3(b.x - target.x, 0, target.x - (b.x + b.size))
        dy == Max3(b.y - target.y, 0, target.y - (b.y + b.size))
    IN  dx * dx + dy * dy

\* Whether extent b lies entirely within the half-open square of extent n.
Within(b, n) ==
    /\ n.x <= b.x
    /\ n.y <= b.y
    /\ IF b.size = 0
       THEN b.x < n.x + n.size /\ b.y < n.y + n.size
       ELSE b.x + b.size <= n.x + n.size /\ b.y + b.size <= n.y + n.size

\* The number of members of a sequence equal to m.
Copies(ms, m) == Cardinality({i \in DOMAIN ms : ms[i] = m})

RECURSIVE SameTree(_, _)
\* Structural equality: same extent, same children in the same places, same
\* members up to order.
SameTree(a, b) ==
    /\ a.bounds = b.bounds
    /\ Len(a.members) = Len(b.members)
    /\ \A i \in DOMAIN a.members :
          Copies(a.members, a.members[i]) = Copies(b.members, a.members[i])
    /\ Len(a.children) = Len(b.children)
    /\ \A i \in DOMAIN a.children : SameTree(a.children[i], b.children[i])

RECURSIVE Count(_, _), CountFrom(_, _, _)
\* The number of member entries, over all the nodes of a tree, that are
\* in S.
Count(node, S) ==
    Cardinality({i \in DOMAIN node.members : node.members[i] \in S})
        + CountFrom(node.children, 1, S)

CountFrom(nodes, i, S) ==
    IF i > Len(nodes) THEN 0
    ELSE Count(nodes[i], S) + CountFrom(nodes, i + 1, S)

RECURSIVE Flat(_), FlatFrom(_, _)
\* The member entries of all the nodes of a tree, in one sequence.
Flat(node) == node.members \o FlatFrom(node.children, 1)

FlatFrom(nodes, i) ==
    IF i > Len(nodes) THEN <<>>
    ELSE Flat(nodes[i]) \o FlatFrom(nodes, i + 1)

\* The pairs of that entity in a tree.
PairsOf(top, entity) == {m \in AllMembers(top) : m.entity = entity}

\* The node find_node selected for the operation hist records, in the tree
\* before it.
Selected == NodeAt(hist.pre, FindNode(hist.pre, hist.bounds))

----------------------------------------------------------------------------
(* Properties *)

\* C1: every pair a range query has yielded is within max_distance of the
\* target (the squared distance from the target to its extent is at most
\* max_distance squared).
C1_YieldedWithinRange ==
    \A m \in cur.yielded : DistSq(cur.target, m.bounds) <= cur.max_sqdist

\* C2: when the cursor is exhausted (next() returned None), every member of
\* the tree whose extent is within max_distance of the target has been
\* yielded.
C2_AllInRangeYielded ==
    cur.status = "exhausted" =>
        \A m \in AllMembers(tree) :
            DistSq(cur.target, m.bounds) <= cur.max_sqdist => m \in cur.yielded

\* C3: the number of pairs a cursor yields never exceeds the number of
\* members stored in the tree.
C3_YieldsAtMostMembers ==
    cur.count <= TotalMembers(tree)

\* C4: once next() has returned None, every later call of next() on the
\* same cursor returns None again and yields no pair.
C4_ExhaustedStays ==
    [][cur.status = "exhausted" /\ cur'.status # "closed"
         => /\ cur'.status = "exhausted"
            /\ cur'.count = cur.count
            /\ cur'.yielded = cur.yielded]_vars

\* A cursor that yielded pairs, returned None, was called again and
\* returned None again.
C4_Witness ==
    cur.status = "exhausted" /\ cur.nones = 2 /\ cur.count > 0

\* C5: every leaf (a node with no children) holds at most 4 members.
C5_LeafCapacity ==
    \A p \in Paths(tree) :
        NodeAt(tree, p).children = <<>>
            => Len(NodeAt(tree, p).members) <= Capacity

\* C6: every node has exactly 0 or exactly 4 children.
C6_ZeroOrFourChildren ==
    \A p \in Paths(tree) : Len(NodeAt(tree, p).children) \in {0, Fanout}

\* C7: no node with children has all its children childless and memberless.
C7_NoEmptySubtree ==
    \A p \in Paths(tree) :
        NodeAt(tree, p).children # <<>> => ~AllEmpty(NodeAt(tree, p))

\* C8: the extent of every member of every node lies entirely within the
\* half-open square of the node that holds it.
C8_Containment ==
    \A p \in Paths(tree) :
        \A i \in DOMAIN NodeAt(tree, p).members :
            Within(NodeAt(tree, p).members[i].bounds, NodeAt(tree, p).bounds)

\* C9: no extent stored in the tree reaches outside the root square
\* [0,1) x [0,1): an operation given such an extent leaves the tree as it
\* was.
C9_NothingOutsideRoot ==
    \A m \in AllMembers(tree) : Within(m.bounds, Bnd(0, 0, RootSize))

\* C10 as stated: insert(e, x) of an entity not in the tree, immediately
\* followed by remove(e, x), yields a tree structurally equal to the one
\* before the insert.
C10_RoundTrip ==
    hist.phase = "removed" => SameTree(tree, hist.pre)

\* The node insert(e, x) selected in the tree before it.
SelectedBefore == NodeAt(hist.pre, FindNode(hist.pre, hist.bounds))

\* C10 amended: insert(e, x) of an entity not in the tree, immediately
\* followed by remove(e, x), yields a tree structurally equal to the one
\* before the insert when the node selected for x held fewer than 4
\* members (the insert split nothing).
C10_RoundTripNoSplit ==
    hist.phase = "removed" /\ Len(SelectedBefore.members) < Capacity
        => SameTree(tree, hist.pre)

\* An insert into a node below the top that held members already, then the
\* remove, with the tree restored.
C10_Witness ==
    /\ hist.phase = "removed"
    /\ FindNode(hist.pre, hist.bounds) # <<>>
    /\ Len(SelectedBefore.members) \in 1..(Capacity - 1)
    /\ SameTree(tree, hist.pre)

\* C11: insert(e, x) called twice in a row yields the same tree as calling
\* it once, and e is a member exactly once afterwards.
C11_InsertIdempotent ==
    hist.phase = "insert again"
        => /\ SameTree(tree, hist.pre)
           /\ Count(tree, PairsOf(tree, hist.entity)) = 1

\* C12: remove(e, x) when e is not a member of the node selected for x
\* leaves the whole tree as it was.
C12_RemoveAbsentNoOp ==
    hist.phase = "remove" /\ Find(Selected, hist.entity) = 0
        => tree = hist.pre

\* A remove of an entity that the selected node, itself holding members,
\* does not hold while another node does, with the tree left as it was.
C12_Witness ==
    /\ hist.phase = "remove"
    /\ Find(Selected, hist.entity) = 0
    /\ Selected.members # <<>>
    /\ Holds(hist.pre, hist.entity)
    /\ tree = hist.pre

\* The node of the tree before the operation that holds the entity, where
\* exactly one does, and the pair it holds.
HolderPath ==
    CHOOSE p \in Paths(hist.pre) : Find(NodeAt(hist.pre, p), hist.entity) # 0

OldPair == CHOOSE m \in PairsOf(hist.pre, hist.entity) : TRUE

\* relocate(e, new) of an entity the tree holds once, in the node selected
\* for its old extent, with the new extent inside that node's square and
\* selecting the same node.
MovedWithinNode ==
    /\ hist.phase = "relocate"
    /\ Count(hist.pre, PairsOf(hist.pre, hist.entity)) = 1
    /\ FindNode(hist.pre, OldPair.bounds) = HolderPath
    /\ FindNode(hist.pre, hist.bounds) = HolderPath
    /\ Within(hist.bounds, NodeAt(hist.pre, HolderPath).bounds)

\* C13: relocate(e, new) on a tracked entity whose new extent stays in the
\* same node's quadrant produces the same tree as remove(e, old) followed
\* by insert(e, new), and the extent stored for e afterwards is new.
C13_RelocateIsRemoveInsert ==
    MovedWithinNode
        => /\ SameTree(tree, QAdd(QRemove(hist.pre, hist.entity, OldPair.bounds),
                                  hist.entity, hist.bounds))
           /\ PairsOf(tree, hist.entity) = {Mem(hist.entity, hist.bounds)}

\* C14: relocate(e, x) of an entity the tree does not hold produces the
\* tree insert(e, x) produces: e is added to the node find_node selects for
\* x from the root, which is split if it is full.
C14_RelocateAbsentIsInsert ==
    hist.phase = "relocate" /\ ~Holds(hist.pre, hist.entity)
        => /\ tree = QAdd(hist.pre, hist.entity, hist.bounds)
           /\ Holds(tree, hist.entity)

\* A relocate of an entity the tree did not hold, into a full node below
\* the top, which it split.
C14_Witness ==
    /\ hist.phase = "relocate"
    /\ ~Holds(hist.pre, hist.entity)
    /\ FindNode(hist.pre, hist.bounds) # <<>>
    /\ Len(Selected.members) = Capacity
    /\ Len(NodeAt(tree, FindNode(hist.pre, hist.bounds)).children) = Fanout
    /\ tree = QAdd(hist.pre, hist.entity, hist.bounds)

\* An insert that overflowed a leaf: the node selected had no children and
\* 4 members, none of the entity inserted.
OverflowedLeaf ==
    /\ hist.phase = "insert"
    /\ Selected.children = <<>>
    /\ Len(Selected.members) = Capacity
    /\ Find(Selected, hist.entity) = 0

\* The node that was selected, after the operation.
SelectedAfter == NodeAt(tree, FindNode(hist.pre, hist.bounds))

\* The 5 pairs of an overflow.
FivePairs == Selected.members \o <<Mem(hist.entity, hist.bounds)>>

\* The child quadrants of the selected node that contain an extent.
HomesOf(b) ==
    {i \in 0..(Fanout - 1) : Within(b, Split(Selected.bounds, i))}

\* Each of the 5 pairs is in the child whose quadrant contains it and
\* nowhere else, or at the node itself when no child quadrant contains it.
RoutedToQuadrants ==
    \A k \in DOMAIN FivePairs :
        LET m == FivePairs[k]
        IN  IF HomesOf(m.bounds) = {}
            THEN Copies(SelectedAfter.members, m) = Copies(FivePairs, m)
            ELSE /\ Copies(SelectedAfter.members, m) = 0
                 /\ \A i \in 0..(Fanout - 1) :
                       Copies(SelectedAfter.children[i + 1].members, m) =
                           IF i \in HomesOf(m.bounds)
                           THEN Copies(FivePairs, m) ELSE 0

\* The pairs of the scenario.
ScenarioLow ==
    {Mem("e1", Bnd(0, 0, 0)), Mem("e2", Bnd(16, 0, 0)), Mem("e3", Bnd(0, 16, 0))}

ScenarioHigh == {Mem("e4", Bnd(96, 96, 0)), Mem("e5", Bnd(144, 144, 0))}

\* The members of a node, as a set.
MemberSet(node) == {node.members[i] : i \in DOMAIN node.members}

\* The scenario: the fifth insert has split the top node, once, with the
\* first three pairs in child 0 and the last two in child 3.
ScenarioOutcome ==
    /\ Len(tree.children) = Fanout
    /\ tree.members = <<>>
    /\ \A i \in 1..Fanout : tree.children[i].children = <<>>
    /\ MemberSet(tree.children[1]) = ScenarioLow
    /\ Len(tree.children[1].members) = 3
    /\ tree.children[2].members = <<>>
    /\ tree.children[3].members = <<>>
    /\ MemberSet(tree.children[4]) = ScenarioHigh
    /\ Len(tree.children[4].members) = 2

\* C15: when an insert overflows a leaf holding 4 members, the node gets
\* exactly 4 child leaves and each of the 5 pairs is in the one child whose
\* quadrant contains it, or at the node if no quadrant does; the 5 pairs
\* of the scenario, inserted into an empty tree, split the top node once
\* with the first three in child 0 and the last two in child 3.
C15_SplitRouting ==
    OverflowedLeaf
        => /\ Len(SelectedAfter.children) = Fanout
           /\ \A i \in 1..Fanout : SelectedAfter.children[i].children = <<>>
           /\ RoutedToQuadrants
           /\ (hist.pre.children = <<>>
                   /\ AllMembers(tree) = ScenarioLow \cup ScenarioHigh
                 => ScenarioOutcome)

\* C16: a call of next() that moves the cursor up from a child to its
\* parent never fails: it neither panics nor reads through a dangling
\* parent pointer, and goes on at the child after the one it left.
C16_MoveUpNeverFails ==
    cur.status \notin {"panicked", "faulted"}

\* The nodes find_node goes through for the extent of the operation hist
\* records, in the tree before it.
Visited ==
    LET path == FindNode(hist.pre, hist.bounds)
    IN  {NodeAt(hist.pre, SubSeq(path, 1, k)) : k \in 0..Len(path)}

\* C17: at a node with children, find_node descends into child i exactly
\* when the quadrant of child i contains the extent, and stops at the node
\* exactly when no child quadrant contains it.
C17_DescendsIffContained ==
    hist.phase # "idle"
        => \A n \in Visited :
              n.children # <<>>
                  => LET homes == {i \in 0..(Fanout - 1) :
                                      Within(hist.bounds, Split(n.bounds, i))}
                     IN  IF homes = {}
                         THEN ChildIndex(n, hist.bounds) = -1
                         ELSE ChildIndex(n, hist.bounds) \in homes

\* C18: for the target of a query and every child quadrant of the tree it
\* runs on, min_sq_dist is the squared distance from the target to the
\* nearest point of the quadrant's square (0 for a target inside it).
C18_MinSqDistIsNearest ==
    cur.status # "closed"
        => \A p \in Paths(tree) \ {<<>>} :
              MinSqDist(NodeAt(tree, p).bounds, cur.target)
                  = DistSq(cur.target, NodeAt(tree, p).bounds)

\* Whether every pair of another entity than e is as many times in the
\* tree after as in the tree before.
OthersKept(before, after, e) ==
    LET was == Flat(before)
        is  == Flat(after)
    IN  /\ \A i \in DOMAIN was :
              was[i].entity # e => Copies(is, was[i]) = Copies(was, was[i])
        /\ \A i \in DOMAIN is :
              is[i].entity # e => Copies(was, is[i]) = Copies(is, is[i])

\* Whether the parent pointers from the node at a path up to the top are
\* all live.
LiveChain(top, path) ==
    \A k \in 1..Len(path) : NodeAt(top, SubSeq(path, 1, k)).parent = "live"

\* C19: an insert, remove or relocate of entity e leaves every pair of
\* every other entity in the tree as many times as before (a split
\* re-homes each member to exactly one node), and so does
\* QuadtreeNode::remove with its merge-collapse, on any node of the tree
\* between two operations.
C19_OthersConserved ==
    /\ hist.phase \in {"insert", "remove", "relocate"}
          => OthersKept(hist.pre, tree, hist.entity)
    /\ hist.phase = "idle"
          => \A p \in Paths(tree) : \A e \in Movers :
                LiveChain(tree, p)
                    => OthersKept(tree, NodeRemove(tree, p, e), e)

\* An insert that split a node holding 4 pairs of other entities, all of
\* them kept.
C19_Witness ==
    /\ hist.phase = "insert"
    /\ Len(Selected.members) = Capacity
    /\ \A i \in DOMAIN Selected.members :
          Selected.members[i].entity # hist.entity
    /\ Len(SelectedAfter.children) = Fanout
    /\ \E i \in 1..Fanout : SelectedAfter.children[i].members # <<>>
    /\ OthersKept(hist.pre, tree, hist.entity)

\* C20: once the relocation step has processed an entity, the entity is
\* tracked (it has a QuadtreeRef), and after any number of relocation
\* batches each entity is a member of at most one node, at most once.
C20_TrackedOnce ==
    /\ hist.phase = "relocate" => refs[hist.entity] # NoRef
    /\ \A e \in Movers : Count(tree, PairsOf(tree, e)) <= 1

====
